---- MODULE Spec2Model ----
(***************************************************************************)
(* Granular sampler: the offline render pipeline (GranularControl), the    *)
(* store (useGranularStore), the engine handle (GranularInstance), the     *)
(* waveform selection editor (Waveform) and the real-time processor        *)
(* (GranularProcessor).                                                    *)
(*                                                                         *)
(* Numbers are exact integers: Math.floor((a / b) * c) is modelled as      *)
(* (a * c) \div b, i.e. without floating-point rounding.  Of the seventeen *)
(* parameter fields the model keeps selectionStartSampleIx,                *)
(* selectionEndSampleIx and grainSize; the other fourteen fields are set   *)
(* and read exactly like grainSize.                                        *)
(***************************************************************************)
EXTENDS Integers, Sequences, FiniteSets, TLC

VARIABLES
    \* ---- wasm module and the one GranularInstance handle ----
    wasmInitialized,          \* module flag of the wasm wrapper
    instanceMade,             \* a GranularInstance object has been constructed
    instancePtr,              \* GranularInstance.instancePtr (NullPtr = null)
    enginePos,                \* engine: frames rendered so far on the instance
    engineWaveform,           \* engine: the uploaded waveform (NullBuffer = none)
    engineFreeCalls,          \* engine: calls of free_granular_instance
    lastCall,                 \* last direct call: op, result, handle freed before it
    \* ---- store ----
    granularInstance,         \* store field: TRUE when it holds the handle
    audioBuffer,              \* NullBuffer or [id, len]
    processedBuffer,          \* NullProcessed or [src, len, frames]
    selectionStartSampleIx,
    selectionEndSampleIx,
    grainSize,
    \* ---- GranularControl ----
    initPhase,                \* position of the mount effect's initialize()
    timeoutId,                \* NoTimer or ms left of the pending setTimeout
    pendingLoad,              \* NoLoad or the file load in flight
    loads,                    \* number of files loaded so far
    pass,                     \* the render pass run by the latest step, if any
    sinceChange,              \* ms since the effect dependencies last changed
    mounted,                  \* the GranularControl component is mounted
    closureInstance,          \* granularInstance as the mount effect captured it
    \* ---- Waveform (selection editor) ----
    dragState,
    isDragging,
    pointer,                  \* the pointer event handled by the latest step
    pointerDowns,             \* pointer-downs counted in the single-event runs
    \* ---- GranularProcessor (real-time) ----
    outputBuffer,             \* queue of received frames
    rtParams,                 \* this.params
    rtInput,                  \* live input channel of the last process()
    rtOutput,                 \* output channel after the last process()
    rtResult,                 \* outcome of the last process() call
    rtReturn,                 \* what the last process() call returned
    enqueued,                 \* history: frames pushed, in order
    delivered,                \* history: frames shifted and written, in order
    \* ---- playback of the Processed Buffer ----
    isPlaying,                \* store: the playing flag
    sourceNode,               \* store: the latest source node (NoSource = null)
    sourceStates              \* the source nodes created so far, by number

handleVars == <<wasmInitialized, instanceMade, instancePtr, enginePos,
                engineWaveform, engineFreeCalls>>
storeVars  == <<granularInstance, audioBuffer, processedBuffer,
                selectionStartSampleIx, selectionEndSampleIx, grainSize>>
mountVars  == <<mounted, closureInstance>>
ctrlVars   == <<initPhase, timeoutId, pendingLoad, loads, pass,
                sinceChange, mountVars>>
editVars   == <<dragState, isDragging, pointer, pointerDowns>>
rtVars     == <<outputBuffer, rtParams, rtInput, rtOutput, rtResult, rtReturn,
                enqueued, delivered>>
playbackVars == <<isPlaying, sourceNode, sourceStates>>
vars == <<handleVars, lastCall, storeVars, ctrlVars, editVars, rtVars,
          playbackVars>>

----------------------------------------------------------------------------
\* Program constants
FrameSize == 128
DebounceMs == 100
width == 1400
MARKER_HIT_RADIUS == 8
SELECTION_HIT_MARGIN == 5
DefaultGrainSize == 800

\* Bounds of the model
MaxLoads == 2          \* files loaded in one run
MaxEnginePos == 4      \* no pass or render call starts beyond this position
MaxFrames == 2         \* frames posted to the real-time processor in one run
MaxSources == 4        \* source nodes created in one run
MaxPointerDowns == 1   \* pointer-downs in one single-event run
QuantumLen == 2        \* length of the processor's output channel

\* Encodings
NullBuffer == [id |-> 0, len |-> 0]                  \* audioBuffer: null
NullProcessed == [src |-> 0, len |-> 0, frames |-> 0] \* processedBuffer: null
NoLoad == [len |-> -1, inst |-> FALSE]                \* no file load in flight
NullPtr == 0
NoSource == 0                                        \* sourceNode: null
NoTimer == -1
NoFail == -1

\* Inputs
WaveformLengths == {100, 128, 300, 1000}  \* lengths of the files loaded
EditorLengths == {1, 4, 2800}             \* lengths in the editor-only runs
CanvasXs == {0, 350, 700, 1400}           \* pointer X on the canvas
MoveXs == CanvasXs \cup {-50, 1450}       \* pointer X of a move
PointerLengths == {1000}                  \* lengths in the single-event runs
PointerXs == {0, 70, 140, 147, 148, 280, 700, 1260, 1330, 1400}
PointerMoveXs == PointerXs \cup {-50, 1450}
\* Pixels and lengths at which the pixel -> sample mapping is compared
PixelXs == {-50, -1, 0, 1, 147, 699, 700, 701, 1399, 1400, 1401, 1450}
PixelLengths == {0, 1}
GrainSizes == {832}
TickMs == {50}

Min(a, b) == IF a < b THEN a ELSE b
Max(a, b) == IF a > b THEN a ELSE b
Abs(a) == IF a < 0 THEN -a ELSE a
CeilDiv(a, b) == (a + b - 1) \div b

----------------------------------------------------------------------------
\* wasm wrapper: GranularInstance

\* Mutant of RenderFrameThrows: a freed handle is not detected.
RenderFrameThrowsNever(ptr) == FALSE

\* renderFrame: 'Granular instance has been freed' when instancePtr is null
RenderFrameThrows(ptr) == ptr = NullPtr

\* setWaveform: 'Granular instance has been freed' when instancePtr is null
SetWaveformThrows(ptr) == ptr = NullPtr

\* Mutant of FreeCallsEngine: the pointer is not looked at.
FreeCallsEngineAlways(ptr) == TRUE

\* free(): the engine's free entry point is called only for a non-null pointer
FreeCallsEngine(ptr) == ptr # NullPtr

\* Mutant of CreateThrows: the initialization flag is not checked.
CreateThrowsNever(initialized) == FALSE

\* createGranularInstance / constructor: throws before initWasm has completed
CreateThrows(initialized) == ~initialized

----------------------------------------------------------------------------
\* Waveform: pixel <-> sample mapping and hit testing

sampleToPixel(sampleIx, dataLength) ==
    IF dataLength = 0 THEN 0 ELSE (sampleIx * width) \div dataLength

\* Mutant of pixelToSample: the pixel is not clamped to the canvas.
pixelToSampleUnclamped(pixelX, dataLength) ==
    IF dataLength = 0 THEN 0 ELSE (pixelX * dataLength) \div width

pixelToSample(pixelX, dataLength) ==
    IF dataLength = 0 THEN 0
    ELSE LET clampedX == Max(0, Min(width, pixelX))
         IN (clampedX * dataLength) \div width

NoDrag == [type |-> "none", startOffsetSamples |-> 0]
NoPointer == [op |-> "none", x |-> 0]

\* Mutant of getDragType: the range region is tested before the markers.
getDragTypeRangeFirst(x, selStart, selEnd, dataLength) ==
    LET startX == sampleToPixel(selStart, dataLength)
        endX == sampleToPixel(selEnd, dataLength)
    IN IF x >= startX - SELECTION_HIT_MARGIN /\ x <= endX + SELECTION_HIT_MARGIN
       THEN "selection"
       ELSE IF Abs(x - startX) < MARKER_HIT_RADIUS THEN "start-marker"
       ELSE IF Abs(x - endX) < MARKER_HIT_RADIUS THEN "end-marker"
       ELSE "none"

\* Mutant of getDragType: the end marker is tested before the start marker.
getDragTypeEndFirst(x, selStart, selEnd, dataLength) ==
    LET startX == sampleToPixel(selStart, dataLength)
        endX == sampleToPixel(selEnd, dataLength)
    IN IF Abs(x - endX) < MARKER_HIT_RADIUS THEN "end-marker"
       ELSE IF Abs(x - startX) < MARKER_HIT_RADIUS THEN "start-marker"
       ELSE IF x >= startX - SELECTION_HIT_MARGIN /\ x <= endX + SELECTION_HIT_MARGIN
            THEN "selection"
       ELSE "none"

getDragType(x, selStart, selEnd, dataLength) ==
    LET startX == sampleToPixel(selStart, dataLength)
        endX == sampleToPixel(selEnd, dataLength)
    IN IF Abs(x - startX) < MARKER_HIT_RADIUS THEN "start-marker"
       ELSE IF Abs(x - endX) < MARKER_HIT_RADIUS THEN "end-marker"
       ELSE IF x >= startX - SELECTION_HIT_MARGIN /\ x <= endX + SELECTION_HIT_MARGIN
            THEN "selection"
       ELSE "none"

\* Mutant of ClickOutside: the bound whose marker is farther is set.
ClickOutsideFarther(x, sampleIx, selStart, selEnd, dataLength) ==
    IF Abs(x - sampleToPixel(selStart, dataLength))
         > Abs(x - sampleToPixel(selEnd, dataLength))
    THEN [start |-> sampleIx, end |-> selEnd]
    ELSE [start |-> selStart, end |-> sampleIx]

\* handleMouseDown, click outside the markers and the selection
ClickOutside(x, sampleIx, selStart, selEnd, dataLength) ==
    IF Abs(x - sampleToPixel(selStart, dataLength))
         < Abs(x - sampleToPixel(selEnd, dataLength))
    THEN [start |-> sampleIx, end |-> selEnd]
    ELSE [start |-> selStart, end |-> sampleIx]

\* handleMouseDown: the new drag state and selection bounds; a click outside
\* sets neither dragState nor isDragging
MouseDownResult(x, selStart, selEnd, dataLength, drag, dragging) ==
    LET dragType == getDragType(x, selStart, selEnd, dataLength)
        sampleIx == pixelToSample(x, dataLength)
    IN IF dragType # "none"
       THEN [drag |-> IF dragType = "selection"
                      THEN [type |-> "selection",
                            startOffsetSamples |-> sampleIx - selStart]
                      ELSE [type |-> dragType, startOffsetSamples |-> 0],
             dragging |-> TRUE, start |-> selStart, end |-> selEnd]
       ELSE LET sel == ClickOutside(x, sampleIx, selStart, selEnd, dataLength)
            IN [drag |-> drag, dragging |-> dragging,
                start |-> sel.start, end |-> sel.end]

\* Mutant of DragSelection: the end marker is not moved along with the start.
DragSelectionStartOnly(sampleIx, selStart, selEnd, dataLength, offset) ==
    LET newStart == sampleIx - offset
        newEnd == newStart + (selEnd - selStart)
    IN IF newStart < 0
       THEN [start |-> 0, end |-> Min(dataLength, selEnd + (0 - newStart))]
       ELSE IF newEnd > dataLength
       THEN [start |-> Max(0, selStart - (newEnd - dataLength)),
             end |-> dataLength]
       ELSE [start |-> newStart, end |-> selEnd]

\* handleMouseMove, case 'selection'
DragSelection(sampleIx, selStart, selEnd, dataLength, offset) ==
    LET newStart == sampleIx - offset
        newEnd == newStart + (selEnd - selStart)
    IN IF newStart < 0
       THEN [start |-> 0, end |-> Min(dataLength, selEnd + (0 - newStart))]
       ELSE IF newEnd > dataLength
       THEN [start |-> Max(0, selStart - (newEnd - dataLength)),
             end |-> dataLength]
       ELSE [start |-> newStart, end |-> newEnd]

\* Mutant of DragStartMarker: the start marker may reach the end marker.
DragStartMarkerUpToEnd(sampleIx, selStart, selEnd) ==
    [start |-> Max(0, Min(sampleIx, selEnd)), end |-> selEnd]

\* handleMouseMove, case 'start-marker'
DragStartMarker(sampleIx, selStart, selEnd) ==
    [start |-> Max(0, Min(sampleIx, selEnd - 1)), end |-> selEnd]

\* Mutant of DragEndMarker: the end marker follows the pointer below the start.
DragEndMarkerNoFloor(sampleIx, selStart, selEnd, dataLength) ==
    [start |-> selStart, end |-> Min(dataLength, sampleIx)]

\* Mutant of DragEndMarker: the end marker may reach the start marker.
DragEndMarkerDownToStart(sampleIx, selStart, selEnd, dataLength) ==
    [start |-> selStart, end |-> Min(dataLength, Max(sampleIx, selStart))]

\* handleMouseMove, case 'end-marker'
DragEndMarker(sampleIx, selStart, selEnd, dataLength) ==
    [start |-> selStart, end |-> Min(dataLength, Max(sampleIx, selStart + 1))]

\* Mutant of MouseMoveResult: the move is handled without a drag in progress.
MouseMoveResultUnguarded(x, selStart, selEnd, dataLength, drag, dragging) ==
    LET sampleIx == pixelToSample(x, dataLength)
    IN IF drag.type = "start-marker"
       THEN DragStartMarker(sampleIx, selStart, selEnd)
       ELSE IF drag.type = "end-marker"
       THEN DragEndMarker(sampleIx, selStart, selEnd, dataLength)
       ELSE DragSelection(sampleIx, selStart, selEnd, dataLength,
                          drag.startOffsetSamples)

\* handleMouseMove: the new selection bounds
MouseMoveResult(x, selStart, selEnd, dataLength, drag, dragging) ==
    LET sampleIx == pixelToSample(x, dataLength)
    IN IF ~dragging \/ drag.type = "none"
       THEN [start |-> selStart, end |-> selEnd]
       ELSE IF drag.type = "start-marker"
       THEN DragStartMarker(sampleIx, selStart, selEnd)
       ELSE IF drag.type = "end-marker"
       THEN DragEndMarker(sampleIx, selStart, selEnd, dataLength)
       ELSE DragSelection(sampleIx, selStart, selEnd, dataLength,
                          drag.startOffsetSamples)

----------------------------------------------------------------------------
\* Store and GranularControl helpers

\* getGranularParams: a fresh snapshot of the store's parameter fields
getGranularParams ==
    [selectionStartSampleIx |-> selectionStartSampleIx,
     selectionEndSampleIx |-> selectionEndSampleIx,
     grainSize |-> grainSize]

\* audioBufferToFloat32Array(buffer).length
InputLength(buffer) == buffer.len

\* App: the buffer handed to Waveform
WaveformMounted == processedBuffer # NullProcessed \/ audioBuffer # NullBuffer
DisplayedLength ==
    IF processedBuffer # NullProcessed THEN processedBuffer.len
    ELSE IF audioBuffer # NullBuffer THEN audioBuffer.len ELSE 0

\* Mutant of ScheduledTimer: a pending timeout is left running (no clearTimeout
\* and no new setTimeout while one is pending).
ScheduledTimerKeepPending(old, ready) ==
    IF old # NoTimer THEN old ELSE IF ready THEN DebounceMs ELSE NoTimer

\* Debounce effect: cleanup clears the old timeout, the body sets a new one
\* when a waveform, the wasm module and an instance are all present.
ScheduledTimer(old, ready) == IF ready THEN DebounceMs ELSE NoTimer

\* Runs the debounce effect when one of its dependencies changed.
useEffectDebounce(changed, ready) ==
    IF changed
    THEN /\ timeoutId' = ScheduledTimer(timeoutId, ready)
         /\ sinceChange' = 0
    ELSE UNCHANGED <<timeoutId, sinceChange>>

\* A store update of the effect's dependencies followed by the re-render.
Commit(ns, ne, ng, nab, ngi, nwasm) ==
    /\ selectionStartSampleIx' = ns
    /\ selectionEndSampleIx' = ne
    /\ grainSize' = ng
    /\ audioBuffer' = nab
    /\ granularInstance' = ngi
    /\ useEffectDebounce(
         <<ns, ne, ng, nab, ngi>> # <<selectionStartSampleIx, selectionEndSampleIx,
                                      grainSize, audioBuffer, granularInstance>>,
         nab # NullBuffer /\ nwasm /\ ngi)

----------------------------------------------------------------------------
\* processOffline

NoPass == [kind |-> "none", trigger |-> "none", startPos |-> 0, n |-> 0,
           calls |-> 0,
           params |-> [selectionStartSampleIx |-> 0, selectionEndSampleIx |-> 0,
                       grainSize |-> 0],
           src |-> 0, offsets |-> <<>>]

\* Frames on which renderFrame may throw during one pass: always the first
\* when the handle is freed, otherwise any frame on which the engine traps.
FailChoices(numFrames) ==
    IF numFrames = 0 THEN {NoFail}
    ELSE IF RenderFrameThrows(instancePtr) THEN {0}
    ELSE {NoFail} \cup ({0, 1, numFrames - 1} \cap (0 .. numFrames - 1))

\* Mutant of TrimmedLength: the output is stored untrimmed.
TrimmedLengthNoSlice(outLen, n) == outLen

\* output.slice(0, inputData.length).length
TrimmedLength(outLen, n) == Min(outLen, n)

\* Mutant of StoredAfterPass: the frames rendered so far are stored when a
\* render call throws.
StoredAfterPassPartial(old, src, n, numFrames, fail) ==
    IF fail = NoFail
    THEN [src |-> src, len |-> TrimmedLength(numFrames * FrameSize, n),
          frames |-> numFrames]
    ELSE [src |-> src, len |-> TrimmedLength(fail * FrameSize, n),
          frames |-> fail]

\* The Processed Buffer in the store after a pass: setProcessedBuffer(trimmed)
\* is reached only when no renderFrame call threw.
StoredAfterPass(old, src, n, numFrames, fail) ==
    IF fail = NoFail
    THEN [src |-> src, len |-> TrimmedLength(numFrames * FrameSize, n),
          frames |-> numFrames]
    ELSE old

\* Mutant of FrameOffset: the offset is counted in bytes.
FrameOffsetBytes(i) == i * FrameSize * 4

\* output.set(frame, i * 128): where frame i of a pass is written
FrameOffset(i) == i * FrameSize

\* Engine position after k completed render calls (each call advances it).
EngineAdvance(pos, k) == pos + k

\* One synchronous processOffline call; timerAfter is the timeout state it
\* leaves.  Returns early without an instance, a waveform or the wasm module.
processOffline(trigger, timerAfter) ==
    IF ~granularInstance \/ audioBuffer = NullBuffer \/ ~wasmInitialized
    THEN /\ timeoutId' = timerAfter
         /\ pass' = NoPass
         /\ UNCHANGED <<handleVars, lastCall, storeVars, initPhase, pendingLoad,
                        loads, sinceChange, editVars, mountVars, rtVars,
                   playbackVars>>
    ELSE LET n == InputLength(audioBuffer)
             numFrames == CeilDiv(n, FrameSize)
             params == getGranularParams
         IN \E fail \in FailChoices(numFrames) :
            LET calls == IF fail = NoFail THEN numFrames ELSE fail
                stored == StoredAfterPass(processedBuffer, audioBuffer.id, n,
                                          numFrames, fail)
            IN /\ enginePos' = EngineAdvance(enginePos, calls)
               /\ processedBuffer' = stored
               /\ pass' = [kind |-> IF fail = NoFail THEN "completed"
                                    ELSE "aborted",
                           trigger |-> trigger, startPos |-> enginePos,
                           n |-> n,
                           calls |-> IF fail = NoFail THEN numFrames
                                     ELSE fail + 1,
                           params |-> params, src |-> audioBuffer.id,
                           offsets |-> [i \in 1 .. calls |-> FrameOffset(i - 1)]]
               /\ timeoutId' = timerAfter
               \* App: the first Processed Buffer replaces the Waveform element
               \* for audioBuffer by a new one, whose drag state is fresh
               /\ IF processedBuffer = NullProcessed /\ stored # NullProcessed
                  THEN /\ dragState' = NoDrag /\ isDragging' = FALSE
                       /\ UNCHANGED <<pointer, pointerDowns>>
                  ELSE UNCHANGED editVars
               /\ UNCHANGED <<wasmInitialized, instanceMade, instancePtr,
                              engineWaveform, engineFreeCalls, lastCall,
                              granularInstance, audioBuffer,
                              selectionStartSampleIx, selectionEndSampleIx,
                              grainSize, initPhase, pendingLoad, loads,
                              sinceChange, mountVars, rtVars,
                   playbackVars>>

\* The debounce timeout fires.
TimerFire ==
    /\ timeoutId = 0
    /\ enginePos < MaxEnginePos
    /\ processOffline("timer", NoTimer)

\* The reprocess button (disabled without a waveform or an instance).
ManualReprocess ==
    /\ mounted
    /\ audioBuffer # NullBuffer /\ granularInstance
    /\ enginePos < MaxEnginePos
    /\ processOffline("manual", timeoutId)

\* Time passes.
Tick ==
    /\ sinceChange < DebounceMs \/ timeoutId > 0
    /\ \E d \in TickMs :
        /\ sinceChange' = Min(DebounceMs, sinceChange + d)
        /\ timeoutId' = IF timeoutId = NoTimer THEN NoTimer
                        ELSE Max(0, timeoutId - d)
    /\ pass' = NoPass
    /\ UNCHANGED <<handleVars, lastCall, storeVars, initPhase, pendingLoad,
                   loads, editVars, mountVars, rtVars,
                   playbackVars>>

----------------------------------------------------------------------------
\* GranularControl: initialization, file load, sliders

\* initialize(): initWasm() resolves, the instance is created and stored.
InitializeDone ==
    /\ initPhase = "pending"
    /\ initPhase' = "done"
    /\ wasmInitialized' = TRUE
    /\ instanceMade' = TRUE
    /\ instancePtr' = 1
    /\ Commit(selectionStartSampleIx, selectionEndSampleIx, grainSize,
              audioBuffer, TRUE, TRUE)
    /\ pass' = NoPass
    /\ UNCHANGED <<enginePos, engineWaveform, engineFreeCalls, lastCall,
                   processedBuffer, pendingLoad, loads, editVars, mountVars, rtVars,
                   playbackVars>>

\* initialize(): initWasm() rejects; the error is caught and logged.
InitializeFail ==
    /\ initPhase = "pending"
    /\ initPhase' = "failed"
    /\ pass' = NoPass
    /\ UNCHANGED <<handleVars, lastCall, storeVars, timeoutId, pendingLoad,
                   loads, sinceChange, editVars, mountVars, rtVars,
                   playbackVars>>

\* handleFileSelect up to its first await: the handler keeps the
\* granularInstance of the render in which it was created.
FileSelect ==
    /\ mounted
    /\ pendingLoad = NoLoad
    /\ loads < MaxLoads
    /\ \E len \in WaveformLengths :
         pendingLoad' = [len |-> len, inst |-> granularInstance]
    /\ pass' = NoPass
    /\ UNCHANGED <<handleVars, lastCall, storeVars, initPhase, timeoutId, loads,
                   sinceChange, editVars, mountVars, rtVars,
                   playbackVars>>

\* Mutant of setAudioBufferSelection: the selection is left as it was.
setAudioBufferSelectionKept(buffer, selStart, selEnd) ==
    [start |-> selStart, end |-> selEnd]

\* setAudioBuffer: the selection it leaves in the store
setAudioBufferSelection(buffer, selStart, selEnd) ==
    IF buffer # NullBuffer
    THEN [start |-> 0, end |-> buffer.len]
    ELSE [start |-> selStart, end |-> selEnd]

\* handleFileSelect after loadAudioFile resolved: setAudioBuffer (which resets
\* the selection to the whole buffer), then the upload to the engine.
FileLoaded ==
    /\ pendingLoad # NoLoad
    /\ LET buffer == [id |-> loads + 1, len |-> pendingLoad.len]
           sel == setAudioBufferSelection(buffer, selectionStartSampleIx,
                                          selectionEndSampleIx)
       IN /\ Commit(sel.start, sel.end, grainSize, buffer, granularInstance,
                    wasmInitialized)
          /\ IF pendingLoad.inst /\ wasmInitialized
                /\ ~SetWaveformThrows(instancePtr)
             THEN engineWaveform' = buffer
             ELSE UNCHANGED engineWaveform
    /\ loads' = loads + 1
    /\ pendingLoad' = NoLoad
    /\ pass' = NoPass
    /\ UNCHANGED <<wasmInitialized, instanceMade, instancePtr, enginePos,
                   engineFreeCalls, lastCall, processedBuffer, initPhase,
                   editVars, mountVars, rtVars,
                   playbackVars>>

\* handleFileSelect: loadAudioFile rejects; the error is caught and shown.
FileLoadError ==
    /\ pendingLoad # NoLoad
    /\ pendingLoad' = NoLoad
    /\ pass' = NoPass
    /\ UNCHANGED <<handleVars, lastCall, storeVars, initPhase, timeoutId, loads,
                   sinceChange, editVars, mountVars, rtVars,
                   playbackVars>>

\* Positions of the Start / End sliders (min 0, max maxLength).
maxLength == IF audioBuffer # NullBuffer THEN audioBuffer.len ELSE 0
SliderStops == {0, maxLength \div 4, maxLength}

\* What a parameter edit or a pointer event leaves alone.
CtrlUnchanged ==
    /\ pass' = NoPass
    /\ UNCHANGED <<handleVars, lastCall, processedBuffer, initPhase,
                   pendingLoad, loads, mountVars, rtVars,
                   playbackVars>>

SliderStart ==
    /\ mounted
    /\ \E v \in SliderStops :
         Commit(v, selectionEndSampleIx, grainSize, audioBuffer,
                granularInstance, wasmInitialized)
    /\ UNCHANGED editVars
    /\ CtrlUnchanged

SliderEnd ==
    /\ mounted
    /\ \E v \in SliderStops :
         Commit(selectionStartSampleIx, v, grainSize, audioBuffer,
                granularInstance, wasmInitialized)
    /\ UNCHANGED editVars
    /\ CtrlUnchanged

SliderGrainSize ==
    /\ mounted
    /\ \E v \in GrainSizes :
         Commit(selectionStartSampleIx, selectionEndSampleIx, v, audioBuffer,
                granularInstance, wasmInitialized)
    /\ UNCHANGED editVars
    /\ CtrlUnchanged

\* The component unmounts (no initialize() or file load in flight).  The
\* mount effect's cleanup frees the granularInstance of the render in which
\* the effect ran; the debounce effect's cleanup clears the timeout; the
\* Waveform element and its drag state go with the component.
Unmount ==
    /\ mounted
    /\ initPhase # "pending"
    /\ pendingLoad = NoLoad
    /\ mounted' = FALSE
    /\ IF closureInstance /\ FreeCallsEngine(instancePtr)
       THEN /\ engineFreeCalls' = engineFreeCalls + 1
            /\ instancePtr' = NullPtr
       ELSE UNCHANGED <<engineFreeCalls, instancePtr>>
    /\ timeoutId' = NoTimer
    /\ dragState' = NoDrag
    /\ isDragging' = FALSE
    /\ pointer' = NoPointer
    /\ pass' = NoPass
    /\ UNCHANGED pointerDowns
    /\ UNCHANGED <<wasmInitialized, instanceMade, enginePos, engineWaveform,
                   lastCall, storeVars, initPhase, pendingLoad, loads,
                   sinceChange, closureInstance, rtVars,
                   playbackVars>>

----------------------------------------------------------------------------
\* Waveform: pointer events at pixel x

handleMouseDown(x) ==
    /\ WaveformMounted
    /\ LET r == MouseDownResult(x, selectionStartSampleIx,
                                selectionEndSampleIx, DisplayedLength,
                                dragState, isDragging)
       IN /\ dragState' = r.drag
          /\ isDragging' = r.dragging
          /\ pointer' = [op |-> "down", x |-> x]
          /\ Commit(r.start, r.end, grainSize, audioBuffer, granularInstance,
                    wasmInitialized)
    /\ CtrlUnchanged

handleMouseMove(x) ==
    /\ WaveformMounted
    /\ LET r == MouseMoveResult(x, selectionStartSampleIx,
                                selectionEndSampleIx, DisplayedLength,
                                dragState, isDragging)
       IN Commit(r.start, r.end, grainSize, audioBuffer, granularInstance,
                 wasmInitialized)
    /\ pointer' = [op |-> "move", x |-> x]
    /\ UNCHANGED <<dragState, isDragging, pointerDowns>>
    /\ CtrlUnchanged

\* Mutant of handleMouseUp: the drag state is left as it is.
handleMouseUpKeepsDrag ==
    /\ WaveformMounted
    /\ pointer' = [op |-> "up", x |-> 0]
    /\ UNCHANGED <<dragState, isDragging, pointerDowns>>
    /\ UNCHANGED <<storeVars, timeoutId, sinceChange>>
    /\ CtrlUnchanged

handleMouseUp ==
    /\ WaveformMounted
    /\ dragState' = NoDrag
    /\ isDragging' = FALSE
    /\ pointer' = [op |-> "up", x |-> 0]
    /\ UNCHANGED pointerDowns
    /\ UNCHANGED <<storeVars, timeoutId, sinceChange>>
    /\ CtrlUnchanged

handleMouseLeave ==
    /\ WaveformMounted
    /\ dragState' = NoDrag
    /\ isDragging' = FALSE
    /\ pointer' = [op |-> "leave", x |-> 0]
    /\ UNCHANGED pointerDowns
    /\ UNCHANGED <<storeVars, timeoutId, sinceChange>>
    /\ CtrlUnchanged

----------------------------------------------------------------------------
\* Initial states

InitHandle ==
    /\ wasmInitialized = FALSE
    /\ instanceMade = FALSE
    /\ instancePtr = NullPtr
    /\ enginePos = 0
    /\ engineWaveform = NullBuffer
    /\ engineFreeCalls = 0
    /\ lastCall = [op |-> "none", result |-> "none", onFreed |-> FALSE]

InitStore ==
    /\ granularInstance = FALSE
    /\ audioBuffer = NullBuffer
    /\ processedBuffer = NullProcessed
    /\ selectionStartSampleIx = 0
    /\ selectionEndSampleIx = 0
    /\ grainSize = DefaultGrainSize

InitCtrl ==
    /\ initPhase = "pending"
    /\ timeoutId = NoTimer
    /\ pendingLoad = NoLoad
    /\ loads = 0
    /\ pass = NoPass
    /\ sinceChange = 0
    /\ mounted = TRUE
    /\ closureInstance = granularInstance

InitEditor ==
    /\ dragState = NoDrag
    /\ isDragging = FALSE
    /\ pointer = NoPointer
    /\ pointerDowns = 0

InitRT ==
    /\ outputBuffer = <<>>
    /\ rtParams = [selectionStartSampleIx |-> 0, grainSize |-> DefaultGrainSize]
    /\ rtInput = <<>>
    /\ rtOutput = <<>>
    /\ rtResult = "none"
    /\ rtReturn = "none"
    /\ enqueued = <<>>
    /\ delivered = <<>>

----------------------------------------------------------------------------
\* Control domain: initialization, file loads, parameter sliders, the debounce
\* timer and the render passes.  Pointer events are exercised in SpecEdit.

InitPlayback ==
    /\ isPlaying = FALSE
    /\ sourceNode = NoSource
    /\ sourceStates = <<>>

Init ==
    /\ InitHandle /\ InitStore /\ InitCtrl /\ InitEditor /\ InitRT
    /\ InitPlayback

Next ==
    \/ InitializeDone
    \/ InitializeFail
    \/ FileSelect
    \/ FileLoaded
    \/ FileLoadError
    \/ SliderStart
    \/ SliderEnd
    \/ SliderGrainSize
    \/ Tick
    \/ TimerFire
    \/ ManualReprocess
    \/ Unmount

Spec == Init /\ [][Next]_vars

----------------------------------------------------------------------------
\* Selection editor alone: one waveform of length L is loaded and shown, the
\* engine did not come up (no render pass replaces the displayed buffer).

InitEdit ==
    /\ InitHandle /\ InitEditor /\ InitRT /\ InitPlayback
    /\ \E L \in EditorLengths :
        /\ audioBuffer = [id |-> 1, len |-> L]
        /\ selectionStartSampleIx = 0
        /\ selectionEndSampleIx = L
    /\ granularInstance = FALSE
    /\ processedBuffer = NullProcessed
    /\ grainSize = DefaultGrainSize
    /\ initPhase = "failed"
    /\ timeoutId = NoTimer
    /\ pendingLoad = NoLoad
    /\ loads = 1
    /\ pass = NoPass
    /\ sinceChange = 0
    /\ mounted = TRUE
    /\ closureInstance = granularInstance

EditDown ==
    /\ \E x \in CanvasXs : handleMouseDown(x)
    /\ UNCHANGED pointerDowns
EditMove == \E x \in MoveXs : handleMouseMove(x)

NextEdit ==
    \/ EditDown
    \/ EditMove
    \/ handleMouseUp
    \/ handleMouseLeave

SpecEdit == InitEdit /\ [][NextEdit]_vars

----------------------------------------------------------------------------
\* Single pointer events: a waveform of length L is shown, the Start and End
\* sliders have set one of a few selections, and at most MaxPointerDowns
\* pointer-downs follow, each with its moves and its up or leave.

\* Selections the sliders can set on a waveform of length L
PointerSelections(L) ==
    {<<0, L>>, <<0, L \div 5>>, <<L \div 10, L - L \div 10>>,
     <<L - L \div 5, L>>, <<L \div 2, L \div 2 + 1>>}

InitPointer ==
    /\ InitHandle /\ InitEditor /\ InitRT /\ InitPlayback
    /\ \E L \in PointerLengths :
        /\ audioBuffer = [id |-> 1, len |-> L]
        /\ \E sel \in PointerSelections(L) :
            /\ selectionStartSampleIx = sel[1]
            /\ selectionEndSampleIx = sel[2]
    /\ granularInstance = FALSE
    /\ processedBuffer = NullProcessed
    /\ grainSize = DefaultGrainSize
    /\ initPhase = "failed"
    /\ timeoutId = NoTimer
    /\ pendingLoad = NoLoad
    /\ loads = 1
    /\ pass = NoPass
    /\ sinceChange = 0
    /\ mounted = TRUE
    /\ closureInstance = granularInstance

PointerDown ==
    /\ pointerDowns < MaxPointerDowns
    /\ pointerDowns' = pointerDowns + 1
    /\ \E x \in PointerXs : handleMouseDown(x)

PointerMove == \E x \in PointerMoveXs : handleMouseMove(x)

NextPointer ==
    \/ PointerDown
    \/ PointerMove
    \/ handleMouseUp
    \/ handleMouseLeave

SpecPointer == InitPointer /\ [][NextPointer]_vars

----------------------------------------------------------------------------
\* The wasm wrapper used directly: initWasm, createGranularInstance and the
\* methods of the one GranularInstance handle, in any order.

ctrlAll == <<storeVars, ctrlVars, editVars, rtVars, playbackVars>>

initWasm ==
    /\ wasmInitialized' = TRUE
    /\ lastCall' = [op |-> "initWasm", result |-> "ok", onFreed |-> FALSE]
    /\ UNCHANGED <<instanceMade, instancePtr, enginePos, engineWaveform,
                   engineFreeCalls, ctrlAll>>

\* init() rejects: initWasm rethrows and the flag stays false.
initWasmFail ==
    /\ ~wasmInitialized
    /\ lastCall' = [op |-> "initWasm", result |-> "throw", onFreed |-> FALSE]
    /\ UNCHANGED <<handleVars, ctrlAll>>

createGranularInstance ==
    /\ ~instanceMade
    /\ IF CreateThrows(wasmInitialized)
       THEN /\ lastCall' = [op |-> "create", result |-> "not-initialized",
                         onFreed |-> FALSE]
            /\ UNCHANGED <<instanceMade, instancePtr>>
       ELSE /\ lastCall' = [op |-> "create", result |-> "ok", onFreed |-> FALSE]
            /\ instanceMade' = TRUE
            /\ instancePtr' = 1
    /\ UNCHANGED <<wasmInitialized, enginePos, engineWaveform, engineFreeCalls,
                   ctrlAll>>

setWaveform(waveform) ==
    /\ instanceMade
    /\ IF SetWaveformThrows(instancePtr)
       THEN /\ lastCall' = [op |-> "setWaveform", result |-> "freed",
                         onFreed |-> instancePtr = NullPtr]
            /\ UNCHANGED engineWaveform
       ELSE /\ lastCall' = [op |-> "setWaveform", result |-> "ok",
                         onFreed |-> instancePtr = NullPtr]
            /\ engineWaveform' = waveform
    /\ UNCHANGED <<wasmInitialized, instanceMade, instancePtr, enginePos,
                   engineFreeCalls, ctrlAll>>

renderFrame ==
    /\ instanceMade
    /\ enginePos < MaxEnginePos
    /\ IF RenderFrameThrows(instancePtr)
       THEN /\ lastCall' = [op |-> "renderFrame", result |-> "freed",
                         onFreed |-> instancePtr = NullPtr]
            /\ UNCHANGED enginePos
       ELSE /\ lastCall' = [op |-> "renderFrame", result |-> "ok",
                         onFreed |-> instancePtr = NullPtr]
            /\ enginePos' = EngineAdvance(enginePos, 1)
    /\ UNCHANGED <<wasmInitialized, instanceMade, instancePtr, engineWaveform,
                   engineFreeCalls, ctrlAll>>

free ==
    /\ instanceMade
    /\ IF FreeCallsEngine(instancePtr)
       THEN /\ engineFreeCalls' = engineFreeCalls + 1
            /\ instancePtr' = NullPtr
       ELSE UNCHANGED <<engineFreeCalls, instancePtr>>
    /\ lastCall' = [op |-> "free", result |-> "ok",
                    onFreed |-> instancePtr = NullPtr]
    /\ UNCHANGED <<wasmInitialized, instanceMade, enginePos, engineWaveform,
                   ctrlAll>>

UploadChoices == {[id |-> i, len |-> l] : i \in 1 .. MaxLoads, l \in WaveformLengths}

HandleSetWaveform == \E w \in UploadChoices : setWaveform(w)

NextHandle ==
    \/ initWasm
    \/ initWasmFail
    \/ createGranularInstance
    \/ HandleSetWaveform
    \/ renderFrame
    \/ free

SpecHandle == Init /\ [][NextHandle]_vars

----------------------------------------------------------------------------
\* The life of the instance: initialization, file loads, the grain size
\* slider, render passes and unmount together with the store's reset() and
\* with free() called on the instance handle.

\* useGranularStore: the fields of initialState
initialState ==
    [audioBuffer |-> NullBuffer, processedBuffer |-> NullProcessed,
     granularInstance |-> FALSE, selectionStartSampleIx |-> 0,
     selectionEndSampleIx |-> 0, grainSize |-> DefaultGrainSize,
     isPlaying |-> FALSE, sourceNode |-> NoSource]

\* useGranularStore.reset: frees the instance the store holds, then
\* set(initialState); the re-render runs the debounce effect's cleanup and
\* takes the Waveform element away.
reset ==
    /\ IF granularInstance
       THEN /\ IF FreeCallsEngine(instancePtr)
               THEN /\ engineFreeCalls' = engineFreeCalls + 1
                    /\ instancePtr' = NullPtr
               ELSE UNCHANGED <<engineFreeCalls, instancePtr>>
            /\ lastCall' = [op |-> "free", result |-> "ok",
                            onFreed |-> instancePtr = NullPtr]
       ELSE UNCHANGED <<engineFreeCalls, instancePtr, lastCall>>
    /\ Commit(initialState.selectionStartSampleIx,
              initialState.selectionEndSampleIx, initialState.grainSize,
              initialState.audioBuffer, initialState.granularInstance,
              wasmInitialized)
    /\ processedBuffer' = initialState.processedBuffer
    /\ dragState' = NoDrag
    /\ isDragging' = FALSE
    /\ pass' = NoPass
    /\ UNCHANGED <<wasmInitialized, instanceMade, enginePos, engineWaveform,
                   initPhase, pendingLoad, loads, mountVars, pointer,
                   pointerDowns, rtVars, sourceStates>>
    /\ isPlaying' = initialState.isPlaying
    /\ sourceNode' = initialState.sourceNode

NextLifecycle ==
    \/ InitializeDone
    \/ InitializeFail
    \/ FileSelect
    \/ FileLoaded
    \/ SliderGrainSize
    \/ Tick
    \/ TimerFire
    \/ ManualReprocess
    \/ Unmount
    \/ reset
    \/ free

SpecLifecycle == Init /\ [][NextLifecycle]_vars

----------------------------------------------------------------------------
\* Playback of the Processed Buffer: the Play / Stop button and the 'ended'
\* events of the source nodes.  A source node is "playing" from start(),
\* "stopped" after stop() and "finished" after its buffer ran out, both with
\* the 'ended' event still to come, and "ended" once the event was delivered.

\* sourceNode.stop(): a node whose 'ended' event was not delivered yet is
\* stopped, with that one event still to come
StopSource(state) ==
    IF state \in {"playing", "finished"} THEN "stopped" ELSE state

\* handlePlay: the button stops the stored source while the flag is set and
\* otherwise starts a new source (disabled without a Processed Buffer; the
\* AudioContext exists as soon as a file was chosen).
handlePlay ==
    /\ mounted
    /\ processedBuffer # NullProcessed
    /\ IF isPlaying /\ sourceNode # NoSource
       THEN /\ sourceStates' = [sourceStates EXCEPT
                                  ![sourceNode] = StopSource(@)]
            /\ isPlaying' = FALSE
            /\ UNCHANGED sourceNode
       ELSE /\ Len(sourceStates) < MaxSources
            /\ sourceStates' = Append(sourceStates, "playing")
            /\ sourceNode' = Len(sourceStates) + 1
            /\ isPlaying' = TRUE
    /\ UNCHANGED <<handleVars, lastCall, storeVars, ctrlVars, editVars, rtVars>>

\* A playing source reaches the end of its buffer; its 'ended' event is queued.
sourceFinishes ==
    /\ \E id \in 1 .. Len(sourceStates) :
         /\ sourceStates[id] = "playing"
         /\ sourceStates' = [sourceStates EXCEPT ![id] = "finished"]
    /\ UNCHANGED <<isPlaying, sourceNode>>
    /\ UNCHANGED <<handleVars, lastCall, storeVars, ctrlVars, editVars, rtVars>>

\* source.onended = () => setIsPlaying(false), for the 'ended' event of any
\* source whose event is due
onended ==
    /\ \E id \in 1 .. Len(sourceStates) :
         /\ sourceStates[id] \in {"stopped", "finished"}
         /\ sourceStates' = [sourceStates EXCEPT ![id] = "ended"]
    /\ isPlaying' = FALSE
    /\ UNCHANGED sourceNode
    /\ UNCHANGED <<handleVars, lastCall, storeVars, ctrlVars, editVars, rtVars>>

\* A waveform of one frame was loaded and rendered: the Processed Buffer is
\* there to be played.
InitPlay ==
    /\ InitEditor /\ InitRT /\ InitPlayback
    /\ wasmInitialized = TRUE
    /\ instanceMade = TRUE
    /\ instancePtr = 1
    /\ enginePos = 1
    /\ engineWaveform = [id |-> 1, len |-> FrameSize]
    /\ engineFreeCalls = 0
    /\ lastCall = [op |-> "none", result |-> "none", onFreed |-> FALSE]
    /\ granularInstance = TRUE
    /\ audioBuffer = [id |-> 1, len |-> FrameSize]
    /\ processedBuffer = [src |-> 1, len |-> FrameSize, frames |-> 1]
    /\ selectionStartSampleIx = 0
    /\ selectionEndSampleIx = FrameSize
    /\ grainSize = DefaultGrainSize
    /\ initPhase = "done"
    /\ timeoutId = NoTimer
    /\ pendingLoad = NoLoad
    /\ loads = 1
    /\ pass = NoPass
    /\ sinceChange = DebounceMs
    /\ mounted = TRUE
    /\ closureInstance = FALSE

NextPlay ==
    \/ handlePlay
    \/ sourceFinishes
    \/ onended

SpecPlay == InitPlay /\ [][NextPlay]_vars

----------------------------------------------------------------------------
\* GranularProcessor: the real-time processor

ctrlDomain == <<handleVars, lastCall, storeVars, ctrlVars, editVars,
               playbackVars>>

\* A frame of len samples, all non-zero, that starts at v + 1.
FrameOf(len, v) == [i \in 1 .. len |-> v + i]
Zeros(len) == [i \in 1 .. len |-> 0]

\* Frames posted by the main thread: shorter than, as long as and longer than
\* the output channel.
FrameChoices ==
    {FrameOf(len, v) : len \in {QuantumLen - 1, QuantumLen, QuantumLen + 1},
                       v \in {0, 10}}

\* Live input channels: silent or not, and possibly short of one sample.
InputChoices ==
    {Zeros(QuantumLen), FrameOf(QuantumLen, 20), FrameOf(QuantumLen - 1, 20)}

\* Mutant of AssignParams: the fields data.params does not name go back to 0.
AssignParamsReset(params, given) ==
    [k \in DOMAIN params |-> IF k \in DOMAIN given THEN given[k] ELSE 0]

\* Object.assign(this.params, data.params) for the fields data.params names
AssignParams(params, given) ==
    [k \in DOMAIN params |-> IF k \in DOMAIN given THEN given[k] ELSE params[k]]

ParamMessages ==
    {[grainSize |-> 832],
     [selectionStartSampleIx |-> 64],
     [selectionStartSampleIx |-> 64, grainSize |-> 832]}

\* port.onmessage: 'updateParams' with a params object
onUpdateParams ==
    /\ \E given \in ParamMessages : rtParams' = AssignParams(rtParams, given)
    /\ rtResult' = "message"
    /\ rtReturn' = "none"
    /\ UNCHANGED <<outputBuffer, rtInput, rtOutput, enqueued, delivered,
                   ctrlDomain>>

\* port.onmessage: 'processedFrame' with a Float32Array
onProcessedFrame ==
    /\ Len(enqueued) < MaxFrames
    /\ \E frame \in FrameChoices :
        /\ outputBuffer' = Append(outputBuffer, frame)
        /\ enqueued' = Append(enqueued, frame)
    /\ rtResult' = "message"
    /\ rtReturn' = "none"
    /\ UNCHANGED <<rtParams, rtInput, rtOutput, delivered, ctrlDomain>>

\* Messages the handler has nothing to do for: a frame that is missing or is
\* a plain array, an update without params, a type it does not know.
MalformedMessages ==
    {[type |-> "processedFrame", hasFrame |-> FALSE, isFloat32Array |-> FALSE,
      frame |-> <<>>, hasParams |-> FALSE, params |-> [grainSize |-> 0]],
     [type |-> "processedFrame", hasFrame |-> TRUE, isFloat32Array |-> FALSE,
      frame |-> FrameOf(QuantumLen, 0), hasParams |-> FALSE,
      params |-> [grainSize |-> 0]],
     [type |-> "updateParams", hasFrame |-> FALSE, isFloat32Array |-> FALSE,
      frame |-> <<>>, hasParams |-> FALSE, params |-> [grainSize |-> 0]],
     [type |-> "reset", hasFrame |-> TRUE, isFloat32Array |-> TRUE,
      frame |-> FrameOf(QuantumLen, 0), hasParams |-> TRUE,
      params |-> [grainSize |-> 832]]}

\* port.onmessage: the parameters and the queue after the message data
onmessage(data, params, queue) ==
    IF data.type = "updateParams"
    THEN [params |-> IF data.hasParams
                     THEN AssignParams(params, data.params) ELSE params,
          queue  |-> queue]
    ELSE IF data.type = "processedFrame"
    THEN [params |-> params,
          queue  |-> IF data.hasFrame /\ data.isFloat32Array
                     THEN Append(queue, data.frame) ELSE queue]
    ELSE [params |-> params, queue |-> queue]

\* port.onmessage: 'updateParams' without params, 'processedFrame' without a
\* Float32Array frame, or another type
onMalformedMessage ==
    /\ \E data \in MalformedMessages :
         LET after == onmessage(data, rtParams, outputBuffer)
         IN /\ rtParams' = after.params
            /\ outputBuffer' = after.queue
    /\ rtResult' = "ignored"
    /\ rtReturn' = "none"
    /\ UNCHANGED <<rtInput, rtOutput, enqueued, delivered, ctrlDomain>>

\* Mutant of QueueTake: the frame behind the taken one is dropped with it.
QueueTakeTwo(queue) ==
    [frame |-> Head(queue),
     rest  |-> IF Len(queue) > 1 THEN Tail(Tail(queue)) ELSE <<>>]

\* Mutant of QueueTake: the newest frame is taken.
QueueTakeNewest(queue) ==
    [frame |-> queue[Len(queue)], rest |-> SubSeq(queue, 1, Len(queue) - 1)]

\* this.outputBuffer.shift()
QueueTake(queue) == [frame |-> Head(queue), rest |-> Tail(queue)]

\* Mutant of WriteFrame: past a short frame the output holds the frame's last
\* sample.
WriteFrameHoldLast(frame, frameLength) ==
    LET copyLength == Min(frameLength, Len(frame))
    IN [i \in 1 .. frameLength |-> frame[Min(i, copyLength)]]

\* The output channel after a queued frame was copied into it
WriteFrame(frame, frameLength) ==
    LET copyLength == Min(frameLength, Len(frame))
    IN [i \in 1 .. frameLength |-> IF i <= copyLength THEN frame[i] ELSE 0]

\* Mutant of ProcessReturn: without a connected input the processor asks to
\* be stopped.
ProcessReturnStopsWithoutInput(hasInput, hasOutput) ==
    IF hasInput THEN "true" ELSE "false"

\* process(): each of its three return statements returns true
ProcessReturn(hasInput, hasOutput) == "true"

\* Mutant of PassThrough: the output is as long as the input channel.
PassThroughInputLength(inputChannel, frameLength) == inputChannel

\* Mutant of PassThrough: silence is written instead of the input.
PassThroughSilence(inputChannel, frameLength) == Zeros(frameLength)

\* The output channel after the pass-through loop: inputChannel[i] || 0
PassThrough(inputChannel, frameLength) ==
    [i \in 1 .. frameLength |->
        IF i <= Len(inputChannel) THEN inputChannel[i] ELSE 0]

\* process() with a connected input and an output channel, which the audio
\* system hands over zero-filled.
processConnected ==
    /\ \E inputChannel \in InputChoices :
        LET frameLength == QuantumLen
        IN /\ rtInput' = inputChannel
           /\ IF Len(outputBuffer) > 0
              THEN LET t == QueueTake(outputBuffer)
                   IN /\ outputBuffer' = t.rest
                      /\ delivered' = Append(delivered, t.frame)
                      /\ rtOutput' = WriteFrame(t.frame, frameLength)
                      /\ rtResult' = "frame"
              ELSE /\ rtOutput' = PassThrough(inputChannel, frameLength)
                   /\ rtResult' = "pass-through"
                   /\ UNCHANGED <<outputBuffer, delivered>>
    /\ rtReturn' = ProcessReturn(TRUE, TRUE)
    /\ UNCHANGED <<rtParams, enqueued, ctrlDomain>>

\* process() without a connected input (inputs[0] is empty): it returns true
\* at once and the zero-filled output channel is left as it was handed over.
processNoInput ==
    /\ rtInput' = <<>>
    /\ rtOutput' = Zeros(QuantumLen)
    /\ rtResult' = "no-input"
    /\ rtReturn' = ProcessReturn(FALSE, TRUE)
    /\ UNCHANGED <<outputBuffer, rtParams, enqueued, delivered, ctrlDomain>>

\* process() without an output channel (outputs[0] is missing or empty): it
\* returns true at once, whatever the input and the queue hold.
processNoOutput ==
    /\ \E inputChannel \in InputChoices \cup {<<>>} :
         /\ rtInput' = inputChannel
         /\ rtReturn' = ProcessReturn(inputChannel # <<>>, FALSE)
    /\ rtOutput' = <<>>
    /\ rtResult' = "no-output"
    /\ UNCHANGED <<outputBuffer, rtParams, enqueued, delivered, ctrlDomain>>

\* The bundled public worklet: its pass-through loop, inputChannel[i] || 0
PublicPassThrough(inputChannel, frameLength) ==
    [i \in 1 .. frameLength |->
        IF i <= Len(inputChannel) THEN inputChannel[i] ELSE 0]

\* The bundled public worklet, process() with a connected input: it has no
\* frame queue and passes the input through on every call.
publicProcessConnected ==
    /\ \E inputChannel \in InputChoices :
         /\ rtInput' = inputChannel
         /\ rtOutput' = PublicPassThrough(inputChannel, QuantumLen)
    /\ rtResult' = "public-pass-through"
    /\ rtReturn' = "true"
    /\ UNCHANGED <<outputBuffer, rtParams, enqueued, delivered, ctrlDomain>>

\* The bundled public worklet, process() without a connected input.
publicProcessNoInput ==
    /\ rtInput' = <<>>
    /\ rtOutput' = Zeros(QuantumLen)
    /\ rtResult' = "public-no-input"
    /\ rtReturn' = "true"
    /\ UNCHANGED <<outputBuffer, rtParams, enqueued, delivered, ctrlDomain>>

NextRT ==
    \/ onUpdateParams
    \/ onProcessedFrame
    \/ onMalformedMessage
    \/ processConnected
    \/ processNoInput
    \/ processNoOutput
    \/ publicProcessConnected
    \/ publicProcessNoInput

SpecRT == Init /\ [][NextRT]_vars

\* The frame queue alone: frames arrive, process() is called with and without
\* a connected input.
NextRTLive ==
    \/ onProcessedFrame
    \/ processConnected
    \/ processNoInput

\* The audio system keeps calling process() with a connected input and an
\* output channel for as long as the node is connected.
SpecRTLive == Init /\ [][NextRTLive]_vars /\ WF_vars(processConnected)

----------------------------------------------------------------------------
\* Properties

EffectDeps == <<selectionStartSampleIx, selectionEndSampleIx, grainSize,
                audioBuffer, granularInstance>>
PassRan == pass.kind # "none"

\* C1 (as claimed): with a waveform of length L >= 1 loaded, after every
\* pointer event 0 <= selectionStart < selectionEnd <= L.
C1_SelectionInvariant ==
    audioBuffer.len >= 1 =>
        /\ 0 <= selectionStartSampleIx
        /\ selectionStartSampleIx < selectionEndSampleIx
        /\ selectionEndSampleIx <= audioBuffer.len

\* C2: a completed render pass stores a Processed Buffer whose length is the
\* length N of the waveform it rendered.
C2_ProcessedLength ==
    pass.kind = "completed" =>
        /\ pass.n = audioBuffer.len
        /\ processedBuffer.len = pass.n

C2_Witness ==
    /\ pass.kind = "completed"
    /\ pass.n = 100
    /\ processedBuffer.len = 100
    /\ processedBuffer.frames * FrameSize > 100

\* C3 (as claimed): every render pass starts with the engine at position 0.
C3_PassStartsAtZero == PassRan => pass.startPos = 0

\* C4: a change of an effect dependency, with waveform and instance present,
\* cancels the pending timeout and schedules one a full window later; a pending
\* timeout is lost only by such a change, by firing or when the component
\* unmounts; the timer-triggered
\* pass runs only when the window has elapsed since the last change, with the
\* parameter values of that moment, and leaves no timeout pending.
C4_Debounce ==
    [][ /\ (EffectDeps' # EffectDeps
              /\ audioBuffer' # NullBuffer /\ wasmInitialized' /\ granularInstance')
           => (timeoutId' = DebounceMs /\ sinceChange' = 0)
        /\ (EffectDeps' = EffectDeps /\ timeoutId # NoTimer /\ timeoutId' = NoTimer)
           => ((timeoutId = 0 /\ pass'.trigger = "timer") \/ ~mounted')
        /\ (pass'.trigger = "timer" /\ timeoutId' # timeoutId)
           => /\ timeoutId = 0 /\ timeoutId' = NoTimer
              /\ sinceChange = DebounceMs
              /\ pass'.params.selectionStartSampleIx = selectionStartSampleIx
              /\ pass'.params.selectionEndSampleIx = selectionEndSampleIx
              /\ pass'.params.grainSize = grainSize
      ]_vars

C4_Witness ==
    /\ pass.trigger = "timer"
    /\ pass.kind = "completed"
    /\ pass.params.grainSize # DefaultGrainSize
    /\ timeoutId = NoTimer

\* C5: a pass in which a render call throws leaves the stored Processed Buffer
\* as it was, and the stored buffer changes only to the full result of a
\* completed pass (every frame of the pass rendered).
C5_AbortKeepsBuffer ==
    [][ /\ pass'.kind = "aborted" => processedBuffer' = processedBuffer
        /\ processedBuffer' # processedBuffer
           => /\ pass'.kind = "completed"
              /\ processedBuffer'.frames = CeilDiv(pass'.n, FrameSize)
              /\ processedBuffer'.src = pass'.src
      ]_vars

C5_Witness ==
    /\ pass.kind = "aborted"
    /\ pass.calls = 2
    /\ processedBuffer # NullProcessed
    /\ processedBuffer.src = pass.src

\* C6 (as claimed): a stored Processed Buffer was rendered from the waveform
\* that is loaded now.
C6_NoStaleBuffer ==
    processedBuffer # NullProcessed =>
        /\ processedBuffer.src = audioBuffer.id
        /\ processedBuffer.len = audioBuffer.len

C8_SnapshotOrdered ==
    (PassRan /\ pass.calls > 0) =>
        pass.params.selectionStartSampleIx < pass.params.selectionEndSampleIx

\* C9: the frames written to the output are, in order, the first frames that
\* were enqueued and the queue holds the rest, so no frame is written twice or
\* out of order; one process() call takes at most one frame, and the frame it
\* takes is the one it writes.
C9_FifoDelivery ==
    /\ [](enqueued = delivered \o outputBuffer)
    /\ [][ /\ Len(delivered') <= Len(delivered) + 1
           /\ Len(outputBuffer') >= Len(outputBuffer) - 1
           /\ Len(delivered') = Len(delivered) + 1
              => /\ delivered'[Len(delivered')] = Head(outputBuffer)
                 /\ \A i \in 1 .. QuantumLen :
                      i <= Len(Head(outputBuffer))
                        => rtOutput'[i] = Head(outputBuffer)[i]
       ]_vars

C9_Witness ==
    /\ Len(delivered) = 2
    /\ delivered[1] # delivered[2]
    /\ outputBuffer = <<>>
    /\ rtResult = "frame"

C11_FreedOnTeardown ==
    (~mounted /\ initPhase = "done" /\ granularInstance)
        => (instancePtr = NullPtr /\ engineFreeCalls = 1)

\* C12: a pointer-move of a range drag whose proposed start
\* (pointerSample - offsetSamples) is >= 0 and whose proposed end is at most
\* the waveform length sets the selection to the proposed range, so that
\* selectionEnd - selectionStart is exactly what it was before the move.
C12_RangeDragKeepsWidth ==
    [][ (pointer'.op = "move" /\ isDragging /\ dragState.type = "selection")
        => LET L == DisplayedLength
               w == selectionEndSampleIx - selectionStartSampleIx
               proposedStart == pixelToSample(pointer'.x, L)
                                  - dragState.startOffsetSamples
               proposedEnd == proposedStart + w
           IN (proposedStart >= 0 /\ proposedEnd <= L)
              => /\ selectionStartSampleIx' = proposedStart
                 /\ selectionEndSampleIx' = proposedEnd
                 /\ selectionEndSampleIx' - selectionStartSampleIx' = w
      ]_vars

\* The range [100, 900] grabbed at sample 200 and moved to sample 105.
C12_Witness ==
    /\ pointer = [op |-> "move", x |-> 147]
    /\ isDragging
    /\ dragState = [type |-> "selection", startOffsetSamples |-> 100]
    /\ selectionStartSampleIx = 5
    /\ selectionEndSampleIx = 805

\* C13 (as claimed): a pointer-move of a range drag whose proposed start is
\* negative sets selectionStart to 0 and leaves the width of the selection as
\* it was (selection [0, 200] of 1000 with a proposed start of -50 stays
\* [0, 200]).
C13_NegativeStartKeepsWidth ==
    [][ (pointer'.op = "move" /\ isDragging /\ dragState.type = "selection")
        => LET L == DisplayedLength
               w == selectionEndSampleIx - selectionStartSampleIx
               proposedStart == pixelToSample(pointer'.x, L)
                                  - dragState.startOffsetSamples
           IN (proposedStart < 0 /\ w <= L)
              => /\ selectionStartSampleIx' = 0
                 /\ selectionEndSampleIx' = w
      ]_vars

\* C14 (as claimed): no pointer-move of a range drag makes the selection
\* wider: after the move selectionEnd - selectionStart is at most what it was
\* before.
C14_RangeDragNeverWidens ==
    [][ (pointer'.op = "move" /\ isDragging /\ dragState.type = "selection")
        => selectionEndSampleIx' - selectionStartSampleIx'
             <= selectionEndSampleIx - selectionStartSampleIx
      ]_vars

\* C15: a pointer-move of a start-marker drag sets selectionStart to
\* max(0, min(pointerSample, selectionEnd - 1)) and leaves selectionEnd as it
\* was; with selection [100, 900] and the pointer at sample 950 the new start
\* is 899.
C15_StartMarkerDrag ==
    [][ (pointer'.op = "move" /\ isDragging /\ dragState.type = "start-marker")
        => LET pointerSample == pixelToSample(pointer'.x, DisplayedLength)
           IN /\ selectionStartSampleIx'
                   = Max(0, Min(pointerSample, selectionEndSampleIx - 1))
              /\ selectionEndSampleIx' = selectionEndSampleIx
              /\ (selectionStartSampleIx = 100 /\ selectionEndSampleIx = 900
                    /\ pointerSample = 950)
                 => selectionStartSampleIx' = 899
      ]_vars

\* The start marker of [100, 900] dragged to x = 1330, sample 950.
C15_Witness ==
    /\ pointer = [op |-> "move", x |-> 1330]
    /\ isDragging
    /\ dragState.type = "start-marker"
    /\ pixelToSample(pointer.x, DisplayedLength) = 950
    /\ selectionStartSampleIx = 899
    /\ selectionEndSampleIx = 900

\* C16: a pointer-move of an end-marker drag sets selectionEnd to
\* min(waveformLength, max(pointerSample, selectionStart + 1)) and leaves
\* selectionStart as it was.
C16_EndMarkerDrag ==
    [][ (pointer'.op = "move" /\ isDragging /\ dragState.type = "end-marker")
        => LET pointerSample == pixelToSample(pointer'.x, DisplayedLength)
           IN /\ selectionEndSampleIx'
                   = Min(DisplayedLength,
                         Max(pointerSample, selectionStartSampleIx + 1))
              /\ selectionStartSampleIx' = selectionStartSampleIx
      ]_vars

\* The end marker of [100, 900] dragged to x = 0, sample 0.
C16_Witness ==
    /\ pointer = [op |-> "move", x |-> 0]
    /\ isDragging
    /\ dragState.type = "end-marker"
    /\ selectionStartSampleIx = 100
    /\ selectionEndSampleIx = 101

\* C17: a pointer-up or a pointer-leave puts the editor in the Idle state
\* (drag type 'none', isDragging false) whatever the drag state was and
\* changes neither selectionStart nor selectionEnd; a drag is active again
\* only after a later pointer-down.
C17_UpOrLeaveIsIdle ==
    /\ [](pointer.op \in {"up", "leave"}
            => (dragState = NoDrag /\ ~isDragging))
    /\ [][ /\ pointer'.op \in {"up", "leave"}
              => /\ dragState' = NoDrag
                 /\ isDragging' = FALSE
                 /\ selectionStartSampleIx' = selectionStartSampleIx
                 /\ selectionEndSampleIx' = selectionEndSampleIx
           /\ ((isDragging' /\ ~isDragging)
                 \/ (dragState'.type # "none" /\ dragState.type = "none"))
              => pointer'.op = "down"
       ]_vars

\* The pointer released after the start marker was dragged to sample 899.
C17_Witness ==
    /\ pointer.op = "up"
    /\ dragState = NoDrag
    /\ ~isDragging
    /\ selectionStartSampleIx = 899
    /\ selectionEndSampleIx = 900

\* C18: loading a waveform of length L sets selectionStart = 0 and
\* selectionEnd = L whatever the selection was, and leaves the other
\* parameter fields (grainSize) as they were.
C18_LoadResetsSelection ==
    [][ (audioBuffer' # audioBuffer /\ audioBuffer' # NullBuffer)
        => /\ selectionStartSampleIx' = 0
           /\ selectionEndSampleIx' = audioBuffer'.len
           /\ grainSize' = grainSize
      ]_vars

\* The second file, of 300 samples, just loaded after the grain size was
\* changed.
C18_Witness ==
    /\ audioBuffer = [id |-> 2, len |-> 300]
    /\ loads = 2
    /\ sinceChange = 0
    /\ selectionStartSampleIx = 0
    /\ selectionEndSampleIx = 300
    /\ grainSize # DefaultGrainSize

\* C19: creating an instance fails with the 'not initialized' error, and
\* makes no handle, while the engine module has not been initialized; it
\* succeeds, with a live handle, once initialization has completed; no handle
\* exists before initialization has completed.
C19_CreateNeedsInit ==
    /\ instanceMade => wasmInitialized
    /\ lastCall.op = "create"
         => \/ /\ ~wasmInitialized
               /\ lastCall.result = "not-initialized"
               /\ ~instanceMade /\ instancePtr = NullPtr
            \/ /\ wasmInitialized
               /\ lastCall.result = "ok"
               /\ instanceMade /\ instancePtr # NullPtr

\* createGranularInstance called before initWasm.
C19_Witness ==
    /\ lastCall = [op |-> "create", result |-> "not-initialized",
                   onFreed |-> FALSE]
    /\ ~wasmInitialized
    /\ ~instanceMade

\* C20 (as claimed): a pointer-down within the hit radius of the start
\* marker's pixel enters the start-marker drag state, one within the hit
\* radius of the end marker's pixel enters the end-marker drag state;
\* otherwise one in [startPixel - 5, endPixel + 5] enters the range-drag state
\* with offsetSamples = pixelToSample(X) - selectionStart; the selection
\* bounds are unchanged in the three cases.
C20_PointerDownAsClaimed ==
    [][ pointer'.op = "down"
        => LET x == pointer'.x
               L == DisplayedLength
               startX == sampleToPixel(selectionStartSampleIx, L)
               endX == sampleToPixel(selectionEndSampleIx, L)
               nearStart == Abs(x - startX) < MARKER_HIT_RADIUS
               nearEnd == Abs(x - endX) < MARKER_HIT_RADIUS
               inRange == /\ x >= startX - SELECTION_HIT_MARGIN
                          /\ x <= endX + SELECTION_HIT_MARGIN
           IN /\ nearStart => (dragState'.type = "start-marker" /\ isDragging')
              /\ nearEnd => (dragState'.type = "end-marker" /\ isDragging')
              /\ (~nearStart /\ ~nearEnd /\ inRange)
                 => /\ dragState' = [type |-> "selection",
                                     startOffsetSamples |->
                                       pixelToSample(x, L) - selectionStartSampleIx]
                    /\ isDragging'
              /\ (nearStart \/ nearEnd \/ inRange)
                 => /\ selectionStartSampleIx' = selectionStartSampleIx
                    /\ selectionEndSampleIx' = selectionEndSampleIx
      ]_vars

\* C20 (amended): a pointer-down less than 8 px from the start marker's pixel
\* enters the start-marker drag state; otherwise one less than 8 px from the
\* end marker's pixel enters the end-marker drag state; otherwise one in
\* [startPixel - 5, endPixel + 5] enters the range-drag state with
\* offsetSamples = pixelToSample(X) - selectionStart; the selection bounds are
\* unchanged in the three cases.
C20_PointerDownHitTest ==
    [][ pointer'.op = "down"
        => LET x == pointer'.x
               L == DisplayedLength
               startX == sampleToPixel(selectionStartSampleIx, L)
               endX == sampleToPixel(selectionEndSampleIx, L)
               nearStart == Abs(x - startX) < MARKER_HIT_RADIUS
               nearEnd == Abs(x - endX) < MARKER_HIT_RADIUS
               inRange == /\ x >= startX - SELECTION_HIT_MARGIN
                          /\ x <= endX + SELECTION_HIT_MARGIN
           IN /\ nearStart => (dragState'.type = "start-marker" /\ isDragging')
              /\ (~nearStart /\ nearEnd)
                 => (dragState'.type = "end-marker" /\ isDragging')
              /\ (~nearStart /\ ~nearEnd /\ inRange)
                 => /\ dragState' = [type |-> "selection",
                                     startOffsetSamples |->
                                       pixelToSample(x, L) - selectionStartSampleIx]
                    /\ isDragging'
              /\ (nearStart \/ nearEnd \/ inRange)
                 => /\ selectionStartSampleIx' = selectionStartSampleIx
                    /\ selectionEndSampleIx' = selectionEndSampleIx
      ]_vars

\* A pointer-down at x = 700 on the selection [500, 501], whose two markers
\* are at pixels 700 and 701.
C20_Witness ==
    /\ pointer = [op |-> "down", x |-> 700]
    /\ sampleToPixel(selectionStartSampleIx, DisplayedLength) = 700
    /\ sampleToPixel(selectionEndSampleIx, DisplayedLength) = 701
    /\ dragState.type = "start-marker"
    /\ isDragging

\* C21: a pointer-down that hits neither marker nor the selection region sets
\* exactly one bound to the clicked sample, the start when the start marker's
\* pixel is nearer to the click and the end when the end marker's pixel is
\* nearer, leaves the other bound as it was and starts no drag: an Idle
\* editor stays Idle, and a pointer-move in Idle changes no bound.
C21_ClickOutside ==
    [][ /\ pointer'.op = "down"
           => LET x == pointer'.x
                  L == DisplayedLength
                  startDist == Abs(x - sampleToPixel(selectionStartSampleIx, L))
                  endDist == Abs(x - sampleToPixel(selectionEndSampleIx, L))
                  hitsNothing ==
                      /\ startDist >= MARKER_HIT_RADIUS
                      /\ endDist >= MARKER_HIT_RADIUS
                      /\ ~(/\ x >= sampleToPixel(selectionStartSampleIx, L)
                                    - SELECTION_HIT_MARGIN
                           /\ x <= sampleToPixel(selectionEndSampleIx, L)
                                    + SELECTION_HIT_MARGIN)
                  startSet == /\ selectionStartSampleIx' = pixelToSample(x, L)
                              /\ selectionEndSampleIx' = selectionEndSampleIx
                  endSet == /\ selectionEndSampleIx' = pixelToSample(x, L)
                            /\ selectionStartSampleIx' = selectionStartSampleIx
              IN hitsNothing
                 => /\ startDist < endDist => startSet
                    /\ endDist < startDist => endSet
                    /\ startSet \/ endSet
                    /\ dragState' = dragState /\ isDragging' = isDragging
                    /\ (dragState = NoDrag /\ ~isDragging)
                       => (dragState' = NoDrag /\ ~isDragging')
        /\ (pointer'.op = "move" /\ (~isDragging \/ dragState.type = "none"))
           => /\ selectionStartSampleIx' = selectionStartSampleIx
              /\ selectionEndSampleIx' = selectionEndSampleIx
      ]_vars

\* A click at x = 70, sample 50, left of the selection [800, 1000].
C21_Witness ==
    /\ pointer = [op |-> "down", x |-> 70]
    /\ dragState = NoDrag
    /\ ~isDragging
    /\ selectionStartSampleIx = 50
    /\ selectionEndSampleIx = 1000

\* C22: a render pass that completes over a waveform of length N has called
\* renderFrame exactly ceil(N / 128) times, has written frame i at output
\* offset i * 128 in call order, has used one parameter snapshot, the store's
\* fields as of the pass, and stores the output cut to N samples (N = 1000:
\* 8 calls, 1000 samples).
C22_PassFrames ==
    pass.kind = "completed" =>
        /\ pass.calls = CeilDiv(pass.n, FrameSize)
        /\ (pass.calls - 1) * FrameSize < pass.n
        /\ pass.n <= pass.calls * FrameSize
        /\ Len(pass.offsets) = pass.calls
        /\ \A i \in 1 .. Len(pass.offsets) :
             pass.offsets[i] = (i - 1) * FrameSize
        /\ pass.params = getGranularParams
        /\ processedBuffer.frames = pass.calls
        /\ processedBuffer.len = pass.n
        /\ pass.n = 1000 => (pass.calls = 8 /\ processedBuffer.len = 1000)

C22_Witness ==
    /\ pass.kind = "completed"
    /\ pass.n = 1000
    /\ pass.calls = 8
    /\ pass.offsets[8] = 896
    /\ processedBuffer.len = 1000

\* C23: a pointer-move in the start-marker, end-marker or range-drag state
\* that starts with 0 <= selectionStart < selectionEnd <= waveformLength ends
\* with it, for every pointer X, outside the canvas included.
C23_MoveKeepsInvariant ==
    [][ (/\ pointer'.op = "move"
         /\ isDragging
         /\ dragState.type \in {"start-marker", "end-marker", "selection"}
         /\ 0 <= selectionStartSampleIx
         /\ selectionStartSampleIx < selectionEndSampleIx
         /\ selectionEndSampleIx <= DisplayedLength)
        => /\ 0 <= selectionStartSampleIx'
           /\ selectionStartSampleIx' < selectionEndSampleIx'
           /\ selectionEndSampleIx' <= DisplayedLength
      ]_vars

\* The range [100, 900] grabbed at sample 200 and dragged to x = -50, left of
\* the canvas.
C23_Witness ==
    /\ pointer = [op |-> "move", x |-> -50]
    /\ isDragging
    /\ dragState = [type |-> "selection", startOffsetSamples |-> 100]
    /\ selectionStartSampleIx = 0
    /\ selectionEndSampleIx = 1000

\* C24: pixelToSample(X) is floor(clamp(X, 0, width) / width * length): for
\* every pixel X, negative or beyond the canvas width included, it lies in
\* [0, length], is 0 for an empty waveform and is non-decreasing in X.
C24_PixelToSample ==
    \A L \in PixelLengths \cup {DisplayedLength} :
        \A x \in PixelXs :
            LET sample == pixelToSample(x, L)
                clamped == Max(0, Min(width, x))
            IN /\ 0 <= sample /\ sample <= L
               /\ L = 0 => sample = 0
               /\ sample * width <= clamped * L
               /\ clamped * L < (sample + 1) * width
               /\ \A y \in PixelXs :
                    x <= y => sample <= pixelToSample(y, L)

\* The end marker of [100, 900] dragged to x = 1450, right of the canvas.
C24_Witness ==
    /\ pointer = [op |-> "move", x |-> 1450]
    /\ isDragging
    /\ dragState.type = "end-marker"
    /\ selectionStartSampleIx = 100
    /\ selectionEndSampleIx = pixelToSample(1450, DisplayedLength)
    /\ selectionEndSampleIx = DisplayedLength

ProcessResults == {"frame", "pass-through", "no-input", "no-output"}

\* C25 (as claimed): every process() call that finds the queue non-empty
\* removes exactly one frame from it and writes that frame to the output,
\* with or without a connected input.
C25_QueuedFrameAlwaysTaken ==
    [][ (rtResult' \in ProcessResults /\ Len(outputBuffer) > 0)
        => /\ outputBuffer' = Tail(outputBuffer)
           /\ delivered' = Append(delivered, Head(outputBuffer))
           /\ rtOutput' = WriteFrame(Head(outputBuffer), QuantumLen)
      ]_vars

C27_QueuedFrameWritten ==
    [][ rtResult' = "frame"
          => /\ Len(outputBuffer) > 0
             /\ Len(rtOutput') = QuantumLen
             /\ \A i \in 1 .. QuantumLen :
                  rtOutput'[i] = IF i <= Len(Head(outputBuffer))
                                 THEN Head(outputBuffer)[i] ELSE 0
             /\ outputBuffer' = Tail(outputBuffer)
      ]_vars

\* A long frame was cut, and after it a short frame was padded with 0.
C27_Witness ==
    /\ rtResult = "frame"
    /\ delivered = <<FrameOf(QuantumLen + 1, 10), FrameOf(QuantumLen - 1, 0)>>
    /\ rtOutput = Append(FrameOf(QuantumLen - 1, 0), 0)
    /\ outputBuffer = <<>>

\* C28: a 'processedFrame' message without a Float32Array frame, an
\* 'updateParams' message without params and a message of another type leave
\* the frame queue and the stored parameters as they were; an 'updateParams'
\* message with some of the fields overwrites these fields and no other.
C28_MessagesHandled ==
    [][ /\ rtResult' = "ignored"
           => outputBuffer' = outputBuffer /\ rtParams' = rtParams
        /\ (rtResult' = "message" /\ outputBuffer' = outputBuffer)
           => \E given \in ParamMessages :
                /\ DOMAIN rtParams' = DOMAIN rtParams
                /\ \A k \in DOMAIN rtParams :
                     rtParams'[k] = IF k \in DOMAIN given
                                    THEN given[k] ELSE rtParams[k]
      ]_vars

\* A message was ignored while a frame was queued and after an update of the
\* start position alone.
C28_Witness ==
    /\ rtResult = "ignored"
    /\ Len(outputBuffer) = 1
    /\ rtParams.selectionStartSampleIx = 64
    /\ rtParams.grainSize = DefaultGrainSize

\* C29: every process() call returns true, whether the input, the output
\* channel or both are missing and whether the queue holds frames or not, in
\* the processor and in the bundled public worklet alike; the processor is
\* never asked to stop.
C29_ProcessReturnsTrue ==
    /\ rtReturn \in {"none", "true"}
    /\ rtResult \in ProcessResults \cup {"public-pass-through", "public-no-input"}
          => rtReturn = "true"
    /\ rtResult \in {"none", "message", "ignored"} => rtReturn = "none"

\* A call with neither an input nor an output channel while a frame is queued.
C29_Witness ==
    /\ rtResult = "no-output"
    /\ rtInput = <<>>
    /\ rtOutput = <<>>
    /\ Len(outputBuffer) > 0
    /\ rtReturn = "true"

\* C30: whenever a render pass runs on the engine instance, the waveform in
\* the store is the one that was uploaded to the instance, in whatever order
\* the initialization completed, the file was loaded and the debounce timer
\* fired.
C30_WaveformUploadedBeforePass ==
    pass.kind # "none" => engineWaveform = audioBuffer

\* C31: during a range drag a pointer move to the pixel of the move before it
\* leaves the selection start and the selection end as that move left them,
\* also when the move is clamped at an edge of the buffer.
C31_RepeatedMoveIdempotent ==
    [][ (/\ pointer.op = "move"
         /\ pointer'.op = "move"
         /\ pointer'.x = pointer.x
         /\ isDragging
         /\ dragState.type = "selection")
          => /\ selectionStartSampleIx' = selectionStartSampleIx
             /\ selectionEndSampleIx' = selectionEndSampleIx
      ]_vars

\* C32: over every sequence of free(), reset() and unmount the engine's free
\* entry point is called at most once for the instance that was created;
\* reset() leaves the store without an instance, a waveform and a Processed
\* Buffer and with every parameter at its default.
C32_FreedOnceAndReset ==
    [][ /\ engineFreeCalls' <= 1
        /\ engineFreeCalls' > 0 => (instanceMade' /\ instancePtr' = NullPtr)
        /\ reset => /\ ~granularInstance'
                    /\ audioBuffer' = NullBuffer
                    /\ processedBuffer' = NullProcessed
                    /\ selectionStartSampleIx' = 0
                    /\ selectionEndSampleIx' = 0
                    /\ grainSize' = DefaultGrainSize
                    /\ instancePtr' = NullPtr
                    /\ timeoutId' = NoTimer
      ]_vars

\* reset() freed an instance that had rendered a loaded waveform, and free()
\* was called on the handle after it.
C32_Witness ==
    /\ engineFreeCalls = 1
    /\ instanceMade /\ instancePtr = NullPtr
    /\ lastCall.op = "free" /\ lastCall.onFreed
    /\ ~granularInstance
    /\ audioBuffer = NullBuffer
    /\ processedBuffer = NullProcessed
    /\ grainSize = DefaultGrainSize
    /\ enginePos > 0
    /\ loads = 1

\* C33: while process() calls with a connected input and an output channel
\* keep coming, every frame put in the queue is in the end written to the
\* output, once and in its turn; each such call shortens the queue by one
\* frame, down to the empty queue.
C33_EveryFrameWritten ==
    /\ [](/\ Len(delivered) <= Len(enqueued)
          /\ delivered = SubSeq(enqueued, 1, Len(delivered))
          /\ Len(outputBuffer) = Len(enqueued) - Len(delivered))
    /\ [][ rtResult' \in {"frame", "pass-through"}
             => Len(outputBuffer') = Max(0, Len(outputBuffer) - 1) ]_vars
    /\ \A n \in 1 .. MaxFrames :
         (Len(enqueued) >= n) ~> (Len(delivered) >= n)

\* Two equal frames were queued and each of them was written.
C33_Witness ==
    /\ enqueued = <<FrameOf(QuantumLen, 0), FrameOf(QuantumLen, 0)>>
    /\ delivered = enqueued
    /\ outputBuffer = <<>>
    /\ rtOutput = FrameOf(QuantumLen, 0)

\* C34: a pointer-down less than 8 px from both markers (which are then less
\* than 16 px apart) enters the start-marker drag, not the end-marker drag
\* and not the range drag; a pointer-down less than 8 px from a marker enters
\* a marker drag also where it lies in the range region.
C34_BothMarkersInReach ==
    [][ pointer'.op = "down"
        => LET x == pointer'.x
               L == DisplayedLength
               startX == sampleToPixel(selectionStartSampleIx, L)
               endX == sampleToPixel(selectionEndSampleIx, L)
               nearStart == Abs(x - startX) < MARKER_HIT_RADIUS
               nearEnd == Abs(x - endX) < MARKER_HIT_RADIUS
           IN /\ (nearStart /\ nearEnd)
                 => /\ Abs(endX - startX) < 2 * MARKER_HIT_RADIUS
                    /\ dragState' = [type |-> "start-marker",
                                     startOffsetSamples |-> 0]
                    /\ isDragging'
              /\ (nearStart \/ nearEnd)
                 => dragState'.type \in {"start-marker", "end-marker"}
      ]_vars

\* A pointer-down on the selection [500, 501] less than 8 px from both of its
\* markers and inside its range region.
C34_Witness ==
    /\ pointer.op = "down"
    /\ selectionStartSampleIx = 500
    /\ selectionEndSampleIx = 501
    /\ Abs(pointer.x - sampleToPixel(500, DisplayedLength)) < MARKER_HIT_RADIUS
    /\ Abs(pointer.x - sampleToPixel(501, DisplayedLength)) < MARKER_HIT_RADIUS
    /\ pointer.x >= sampleToPixel(500, DisplayedLength) - SELECTION_HIT_MARGIN
    /\ pointer.x <= sampleToPixel(501, DisplayedLength) + SELECTION_HIT_MARGIN
    /\ dragState = [type |-> "start-marker", startOffsetSamples |-> 0]
    /\ isDragging

\* C35: a pointer-move while no drag is in progress changes neither the
\* selection start nor the selection end nor the drag state; no drag is in
\* progress before the first pointer-down, after an up or a leave, and after
\* a pointer-down that hit nothing while no drag was in progress.
C35_IdleMoveChangesNothing ==
    [][ LET idle == ~isDragging \/ dragState.type = "none"
        IN /\ (pointer'.op = "move" /\ idle)
              => /\ selectionStartSampleIx' = selectionStartSampleIx
                 /\ selectionEndSampleIx' = selectionEndSampleIx
                 /\ dragState' = dragState
                 /\ isDragging' = isDragging
           /\ pointer.op \in {"none", "up", "leave"} => idle
           /\ (/\ idle
               /\ pointer'.op = "down"
               /\ getDragType(pointer'.x, selectionStartSampleIx,
                              selectionEndSampleIx, DisplayedLength) = "none")
              => (~isDragging' \/ dragState'.type = "none")
      ]_vars

\* A pointer-down at x = 700 outside the selection [0, 200] moved the end to
\* sample 500; the pointer-move after it, far to the right, changed nothing.
C35_Witness ==
    /\ pointer = [op |-> "move", x |-> 1450]
    /\ pointerDowns = 1
    /\ selectionStartSampleIx = 0
    /\ selectionEndSampleIx = 500
    /\ dragState = NoDrag
    /\ ~isDragging

\* C36: over every interleaving of Play / Stop clicks and 'ended' events the
\* playing flag is set exactly while the source node started last was neither
\* stopped nor has had its 'ended' event; the 'ended' event of an earlier
\* source does not clear the flag of a later one.
C36_PlayingFlagMatches ==
    isPlaying <=> /\ sourceNode # NoSource
                  /\ sourceStates[sourceNode] \in {"playing", "finished"}

====
